---- MODULE Spec2Model ----
(***************************************************************************)
(* State-machine model of cocotb/drivers/amba.py: the AXI4-Lite master,    *)
(* the burst-capable AXI4 slave and the AXI4-Lite slave.                   *)
(*                                                                         *)
(* Time.  Every coroutine of the file suspends only on RisingEdge(clock),  *)
(* on ReadOnly(), on Lock.acquire() and on join().  One clock cycle of the *)
(* model is                                                                *)
(*   - the edge phase: every coroutine that waits for the rising edge is   *)
(*     resumed once, in any order (one Resume* action each); it reads the  *)
(*     committed signal values (bus) and its "<=" assignments go to nxt;   *)
(*   - Settle*: the assignments are committed (bus' = nxt, together with   *)
(*     what a peer outside the file drives), every coroutine that waits    *)
(*     for ReadOnly() samples the settled bus, and the coroutines to       *)
(*     resume at the next rising edge are collected in ready.              *)
(* The scheduler, the triggers and the Lock are cocotb code outside        *)
(* amba.py; they are modelled from the design notes (deferred assignment,  *)
(* FIFO cooperative lock).                                                 *)
(***************************************************************************)
EXTENDS Integers, Sequences, FiniteSets, TLC

VARIABLES
    bus,                 \* committed signal values, what .value reads
    nxt,                 \* signal values after the pending "<=" assignments
    ready,               \* coroutines still to resume in this edge phase
    wr,                  \* AXI4LiteMaster.write() calls and their two sub-tasks
    rd,                  \* AXI4LiteMaster.read() calls
    write_address_busy,  \* AXI4LiteMaster.write_address_busy (Lock)
    write_data_busy,     \* AXI4LiteMaster.write_data_busy (Lock)
    read_address_busy,   \* AXI4LiteMaster.read_address_busy (Lock)
    lite,                \* AXI4LiteSlave: fields and its three coroutines
    burst,               \* AXI4Slave: memory and its two coroutines
    touched              \* history: byte addresses the AXI4Slave write bursts cover

vars == <<bus, nxt, ready, wr, rd, write_address_busy, write_data_busy,
          read_address_busy, lite, burst, touched>>

-----------------------------------------------------------------------------
(* Bounds of the model.                                                    *)

\* write() call slots that may be in flight together
MaxWriters == 3
\* write() calls in flight together through the AXI4LiteSlave
MaxLiteWrites == 2
\* read() call slots that may be in flight together
MaxReaders == 2
\* largest address_latency / data_latency passed to write()
MaxLatency == 1
\* word addresses are 0 .. MaxWord beats
MaxWord == 1

Writers == 1..MaxWriters
Readers == 1..MaxReaders
Latencies == 0..MaxLatency

\* python's None
None == -1

\* the response code OKAY; BRESP/RRESP are two bits wide
OKAY == 0
RespCodes == 0..3

\* the bus carries 32 data bits: len(self.bus.WDATA.value)
data_width == 32

\* data values written and read (0x01020304, 0x05060708), byte enables
\* (all ones, 0b0101) and byte addresses (word aligned) used by the calls
Values == {16909060, 84281096}
ByteEnables == {15, 5}
Addresses == {(data_width \div 8) * i : i \in 0..MaxWord}

Min(a, b) == IF a < b THEN a ELSE b
Max(a, b) == IF a > b THEN a ELSE b

-----------------------------------------------------------------------------
(* Signals.  One record holds every wire of the three _signals lists.      *)

Signals == [AWVALID |-> 0, AWADDR |-> 0, AWREADY |-> 0,
            AWLEN |-> 0, AWSIZE |-> 0,
            WVALID |-> 0, WREADY |-> 0, WDATA |-> 0, WSTRB |-> 0,
            BVALID |-> 0, BREADY |-> 0, BRESP |-> 0,
            ARVALID |-> 0, ARADDR |-> 0, ARREADY |-> 0,
            ARLEN |-> 0, ARSIZE |-> 0,
            RVALID |-> 0, RREADY |-> 0, RRESP |-> 0, RDATA |-> 0,
            RLAST |-> 0]

\* AXI4LiteMaster.__init__: the defaults it drives
MasterInit(s) == [s EXCEPT !.AWVALID = 0, !.WVALID = 0, !.ARVALID = 0,
                           !.BREADY = 1, !.RREADY = 1]

\* a Lock of cocotb.triggers: a flag and the FIFO queue of waiting acquirers
NewLock == [locked |-> FALSE, queue |-> <<>>]

\* an acquire that puts a waiting caller before those who asked earlier
AcquireFront(lock, w) ==
    IF lock.locked THEN [lock EXCEPT !.queue = <<w>> \o @]
    ELSE [lock EXCEPT !.locked = TRUE]

\* Lock.acquire() by caller w: taken at once when free, else w queues
Acquire(lock, w) ==
    IF lock.locked THEN [lock EXCEPT !.queue = Append(@, w)]
    ELSE [lock EXCEPT !.locked = TRUE]

\* whether Acquire(lock, w) returned the lock at once
AcquiredAtOnce(lock) == ~lock.locked

\* Lock.release(): the longest waiting acquirer, if any, becomes the holder
Release(lock) ==
    IF lock.queue = <<>> THEN [lock EXCEPT !.locked = FALSE]
    ELSE [lock EXCEPT !.queue = Tail(@)]

\* the acquirer that Release(lock) resumes, None when nobody waits
Resumed(lock) == IF lock.queue = <<>> THEN None ELSE Head(lock.queue)

\* a coroutine, named by its kind and the call slot it belongs to
Task(kind, n) == <<kind, n>>

\* The master's coroutines and a slave's share no python state, only wires,
\* and an assignment to a wire is not seen before the time step settles: their
\* relative order within an edge phase changes nothing.  The model resumes the
\* master's coroutines first (in any order), then the slave's (in any order).
MasterKinds == {"write", "addr", "data", "read"}
MasterResumed == \A t \in ready : t[1] \notin MasterKinds

-----------------------------------------------------------------------------
(* AXI4LiteMaster.write().                                                 *)
(* pc:  idle | sync (l.138) | join_addr (l.147) | join_data (l.149) |      *)
(*      resp (loop l.152-157) | ret (l.159) | done                         *)
(* apc, dpc (the sub-tasks): none | lock (l.75/96, queued) | granted       *)
(*      (lock handed over, resumed in this time step) | delay (l.77/98) |  *)
(*      sample (loop l.82-86/104-108) | fin (l.87/109) | done              *)
(* adelay, ddelay: iterations of "for cycle in range(delay)" still to run  *)

IdleWrite == [pc |-> "idle", address |-> 0, value |-> 0, byte_enable |-> 0,
              adelay |-> 0, ddelay |-> 0, apc |-> "none", dpc |-> "none",
              result |-> 0, outcome |-> "none"]

IdleRead == [pc |-> "idle", address |-> 0, data |-> 0, result |-> 0,
             outcome |-> "none"]

\* l.79-80: the address sub-task asserts its address
DriveAddress(s, c) == [s EXCEPT !.AWADDR = c.address, !.AWVALID = 1]

\* l.100-102: the data sub-task asserts its data
DriveData(s, c) == [s EXCEPT !.WDATA = c.value, !.WVALID = 1,
                             !.WSTRB = c.byte_enable]

\* _send_write_address going on without waiting for write_address_busy
AddressLockIgnored(lock) == TRUE

\* l.75: _send_write_address takes write_address_busy before it drives; TRUE
\* when the sub-task of a call may go on past acquire()
AddressLockTaken(lock) == AcquiredAtOnce(lock)

\* _send_write_data going on without waiting for write_data_busy
DataLockIgnored(lock) == TRUE

\* l.96: as above for _send_write_data and write_data_busy
DataLockTaken(lock) == AcquiredAtOnce(lock)

\* l.76-80 of _send_write_address once it holds the lock: wait out the delay or
\* assert at once.  Gives the call record; the signals follow in AddressSignals.
AddressProceed(c) ==
    IF c.adelay = 0 THEN [c EXCEPT !.apc = "sample"] ELSE [c EXCEPT !.apc = "delay"]

AddressSignals(s, c) == IF c.adelay = 0 THEN DriveAddress(s, c) ELSE s

\* l.97-102 of _send_write_data once it holds the lock
\* (data and byte_enable are read at l.100-102 only: the record forgets them there)
DataProceed(c) ==
    IF c.ddelay = 0
    THEN [c EXCEPT !.dpc = "sample", !.value = 0, !.byte_enable = 0]
    ELSE [c EXCEPT !.dpc = "delay"]

DataSignals(s, c) == IF c.ddelay = 0 THEN DriveData(s, c) ELSE s

\* l.140-149: write() forks both sub-tasks, each runs to its first suspension,
\* and write() waits for the address sub-task
WriteFork(w, c) ==
    LET a == IF AddressLockTaken(write_address_busy)
             THEN AddressProceed(c) ELSE [c EXCEPT !.apc = "lock"]
        d == IF DataLockTaken(write_data_busy)
             THEN DataProceed(a) ELSE [a EXCEPT !.dpc = "lock"]
        s1 == IF AddressLockTaken(write_address_busy) THEN AddressSignals(nxt, c) ELSE nxt
        s2 == IF DataLockTaken(write_data_busy) THEN DataSignals(s1, c) ELSE s1
    IN  /\ wr' = [wr EXCEPT ![w] = [d EXCEPT !.pc = "join_addr"]]
        /\ write_address_busy' = Acquire(write_address_busy, w)
        /\ write_data_busy' = Acquire(write_data_busy, w)
        /\ nxt' = s2

\* write(address, value, byte_enable, address_latency, data_latency, sync),
\* called by a test coroutine in the edge phase.  The call takes the lowest
\* free slot, and it is placed after the coroutines resumed in this edge phase:
\* a call with sync is resumed in any order at the next edge, and a call
\* without sync placed earlier acts as a call with sync made one cycle before.
CallWrite(w, a, v, be, al, dl, sync) ==
    /\ ready = {}
    /\ wr[w].pc = "idle"
    /\ \A x \in Writers : x < w => wr[x].pc # "idle"
    /\ LET c == [IdleWrite EXCEPT !.address = a, !.value = v, !.byte_enable = be,
                                  !.adelay = al, !.ddelay = dl]
       IN  IF sync
           THEN /\ wr' = [wr EXCEPT ![w] = [c EXCEPT !.pc = "sync"]]
                /\ UNCHANGED <<nxt, write_address_busy, write_data_busy>>
           ELSE WriteFork(w, c)
    /\ UNCHANGED <<bus, ready, rd, read_address_busy, lite, burst, touched>>

\* write() raising for the error codes SLVERR and DECERR only
WriteOutcomeLenient(result) == IF result > 1 THEN "error" ELSE "return"

\* l.161-165: a nonzero response code raises AXIProtocolError, else the code
\* is returned
WriteOutcome(result) == IF result # 0 THEN "error" ELSE "return"

\* write() resumed at a rising edge: after the sync edge (l.138) it forks,
\* after the edge of l.159 it raises or returns
ResumeWrite(w) ==
    /\ Task("write", w) \in ready
    /\ ready' = ready \ {Task("write", w)}
    /\ CASE wr[w].pc = "sync" -> WriteFork(w, wr[w])
         [] wr[w].pc = "ret" ->
              /\ wr' = [wr EXCEPT ![w].pc = "done",
                                  ![w].outcome = WriteOutcome(wr[w].result)]
              /\ UNCHANGED <<nxt, write_address_busy, write_data_busy>>
    /\ UNCHANGED <<bus, rd, read_address_busy, lite, burst, touched>>

\* write() going on to the response loop without joining the data sub-task
JoinAddressOnly(c) == IF c.pc = "join_addr" THEN [c EXCEPT !.pc = "resp"] ELSE c

\* l.146-149 seen from a finishing sub-task: write() goes on to the response
\* loop once both sub-tasks are finished
JoinAfterAddress(c) ==
    IF c.pc = "join_addr"
    THEN [c EXCEPT !.pc = IF c.dpc = "done" THEN "resp" ELSE "join_data"]
    ELSE c

JoinAfterData(c) == IF c.pc = "join_data" THEN [c EXCEPT !.pc = "resp"] ELSE c

\* _send_write_address resumed: by the lock (l.75), in the delay loop (l.77) or
\* at the edge of l.87, after which it deasserts AWVALID and releases the lock
ResumeAddress(w) ==
    /\ Task("addr", w) \in ready
    /\ LET c == wr[w] IN
       CASE c.apc = "granted" ->
              /\ wr' = [wr EXCEPT ![w] = AddressProceed(c)]
              /\ nxt' = AddressSignals(nxt, c)
              /\ ready' = ready \ {Task("addr", w)}
              /\ UNCHANGED write_address_busy
         [] c.apc = "delay" ->
              LET e == [c EXCEPT !.adelay = @ - 1] IN
              /\ wr' = [wr EXCEPT ![w] = AddressProceed(e)]
              /\ nxt' = AddressSignals(nxt, e)
              /\ ready' = ready \ {Task("addr", w)}
              /\ UNCHANGED write_address_busy
         [] c.apc = "fin" ->
              LET n == Resumed(write_address_busy)
                  f == JoinAfterAddress([c EXCEPT !.apc = "done"])
              IN
              /\ nxt' = [nxt EXCEPT !.AWVALID = 0]
              /\ write_address_busy' = Release(write_address_busy)
              /\ wr' = IF n = None THEN [wr EXCEPT ![w] = f]
                       ELSE [wr EXCEPT ![w] = f, ![n].apc = "granted"]
              /\ ready' = (ready \ {Task("addr", w)})
                            \cup (IF n = None THEN {} ELSE {Task("addr", n)})
    /\ UNCHANGED <<bus, rd, write_data_busy, read_address_busy, lite, burst, touched>>

\* _send_write_data resumed, as _send_write_address
ResumeData(w) ==
    /\ Task("data", w) \in ready
    /\ LET c == wr[w] IN
       CASE c.dpc = "granted" ->
              /\ wr' = [wr EXCEPT ![w] = DataProceed(c)]
              /\ nxt' = DataSignals(nxt, c)
              /\ ready' = ready \ {Task("data", w)}
              /\ UNCHANGED write_data_busy
         [] c.dpc = "delay" ->
              LET e == [c EXCEPT !.ddelay = @ - 1] IN
              /\ wr' = [wr EXCEPT ![w] = DataProceed(e)]
              /\ nxt' = DataSignals(nxt, e)
              /\ ready' = ready \ {Task("data", w)}
              /\ UNCHANGED write_data_busy
         [] c.dpc = "fin" ->
              LET n == Resumed(write_data_busy)
                  f == JoinAfterData([c EXCEPT !.dpc = "done"])
              IN
              /\ nxt' = [nxt EXCEPT !.WVALID = 0]
              /\ write_data_busy' = Release(write_data_busy)
              /\ wr' = IF n = None THEN [wr EXCEPT ![w] = f]
                       ELSE [wr EXCEPT ![w] = f, ![n].dpc = "granted"]
              /\ ready' = (ready \ {Task("data", w)})
                            \cup (IF n = None THEN {} ELSE {Task("data", n)})
    /\ UNCHANGED <<bus, rd, write_address_busy, read_address_busy, lite, burst, touched>>

-----------------------------------------------------------------------------
(* AXI4LiteMaster.read().  Note that read() takes no lock.                 *)
(* pc:  idle | sync (l.184) | ar_sample (loop l.189-193) | ar_fin (l.195) |*)
(*      r_sample (loop l.198-204) | done                                   *)

\* read() asserting its address on the write-address wires
DriveReadAddressOnWrite(s, c) == [s EXCEPT !.AWADDR = c.address, !.AWVALID = 1]

\* l.186-187: read() asserts its address
DriveReadAddress(s, c) == [s EXCEPT !.ARADDR = c.address, !.ARVALID = 1]

\* read() raising for the error codes SLVERR and DECERR only
ReadOutcomeLenient(result) == IF result > 1 THEN "error" ELSE "return"

\* l.206-210: a nonzero response code raises AXIProtocolError, else the data
\* is returned
ReadOutcome(result) == IF result # 0 THEN "error" ELSE "return"

\* read(address, sync)
CallRead(r, a, sync) ==
    /\ ready = {}
    /\ rd[r].pc = "idle"
    /\ \A x \in Readers : x < r => rd[x].pc # "idle"
    /\ LET c == [IdleRead EXCEPT !.address = a] IN
       IF sync
       THEN /\ rd' = [rd EXCEPT ![r] = [c EXCEPT !.pc = "sync"]]
            /\ UNCHANGED nxt
       ELSE /\ rd' = [rd EXCEPT ![r] = [c EXCEPT !.pc = "ar_sample"]]
            /\ nxt' = DriveReadAddress(nxt, c)
    /\ UNCHANGED <<bus, ready, wr, write_address_busy, write_data_busy,
                   read_address_busy, lite, burst, touched>>

\* read() resumed at a rising edge: after the sync edge (l.184) it asserts the
\* address, after the edge of l.195 it deasserts ARVALID
ResumeRead(r) ==
    /\ Task("read", r) \in ready
    /\ ready' = ready \ {Task("read", r)}
    /\ CASE rd[r].pc = "sync" ->
              /\ rd' = [rd EXCEPT ![r].pc = "ar_sample"]
              /\ nxt' = DriveReadAddress(nxt, rd[r])
         [] rd[r].pc = "ar_fin" ->
              /\ rd' = [rd EXCEPT ![r].pc = "r_sample"]
              /\ nxt' = [nxt EXCEPT !.ARVALID = 0]
    /\ UNCHANGED <<bus, wr, write_address_busy, write_data_busy,
                   read_address_busy, lite, burst, touched>>

-----------------------------------------------------------------------------
(* The read-only window of the master's coroutines, on the settled bus b.  *)

\* the sub-tasks leaving their loops without having seen their ready
SampleWriteBlind(c, b) ==
    LET a == IF c.apc = "sample" THEN [c EXCEPT !.apc = "fin"] ELSE c
        d == IF a.dpc = "sample" THEN [a EXCEPT !.dpc = "fin"] ELSE a
    IN  IF d.pc = "resp" /\ b.BVALID # 0 /\ b.BREADY # 0
        THEN [d EXCEPT !.pc = "ret", !.result = b.BRESP]
        ELSE d

\* l.83-85 and l.105-107: a sub-task in its loop samples its ready;
\* l.153-156: write() in the response loop samples BVALID and BREADY
SampleWrite(c, b) ==
    LET a == IF c.apc = "sample" /\ b.AWREADY # 0 THEN [c EXCEPT !.apc = "fin"] ELSE c
        d == IF a.dpc = "sample" /\ b.WREADY # 0 THEN [a EXCEPT !.dpc = "fin"] ELSE a
    IN  IF d.pc = "resp" /\ b.BVALID # 0 /\ b.BREADY # 0
        THEN [d EXCEPT !.pc = "ret", !.result = b.BRESP]
        ELSE d

\* l.190-192: read() samples ARREADY; l.199-210: it samples RVALID and RREADY,
\* captures RDATA and RRESP, and raises or returns in the same window
SampleRead(c, b) ==
    CASE c.pc = "ar_sample" /\ b.ARREADY # 0 -> [c EXCEPT !.pc = "ar_fin"]
      [] c.pc = "r_sample" /\ b.RVALID # 0 /\ b.RREADY # 0 ->
           [c EXCEPT !.pc = "done", !.data = b.RDATA, !.result = b.RRESP,
                     !.outcome = ReadOutcome(b.RRESP)]
      [] OTHER -> c

\* the master's coroutines that wait for the next rising edge
MasterWaiters(ws, rs) ==
    {Task("write", w) : w \in {x \in Writers : ws[x].pc \in {"sync", "ret"}}}
      \cup {Task("addr", w) : w \in {x \in Writers : ws[x].apc \in {"delay", "fin"}}}
      \cup {Task("data", w) : w \in {x \in Writers : ws[x].dpc \in {"delay", "fin"}}}
      \cup {Task("read", r) : r \in {x \in Readers : rs[x].pc \in {"sync", "ar_fin"}}}

-----------------------------------------------------------------------------
(* AXI4LiteSlave (constructed with sync=True).                             *)
(* wa  (_write_address): idle (l.442) | wait (l.450, l.456)                *)
(* wd  (_write_data):    idle (l.467) | got (l.477) | waitaddr (l.482) |   *)
(*                       bresp (l.500) | dead (ended by an exception)      *)
(* rdt (_read_data):     idle (l.524) | rresp (l.543) | dead               *)

\* l.29-36: the names the module imports.  struct is not among them, so
\* struct.pack (l.488) and struct.unpack (l.535) raise NameError.
ModuleImports == {"cocotb", "RisingEdge", "ReadOnly", "Lock", "BusDriver",
                  "ReturnValue", "BinaryValue", "binascii", "array"}

NameBound(name) == name \in ModuleImports

\* l.392: bytes_per_beat
bytes_per_beat == data_width \div 8

\* the memory image handed to the slaves: MemSize bytes, byte i at index i+1
MemSize == bytes_per_beat * (MaxWord + 1)
Mem0 == [i \in 1..MemSize |-> 16 + i]

\* python truth of an int-or-None (l.454: "while self._awaddr")
Truthy(x) == x # None /\ x # 0

\* python truth of a string, here one character of str(WSTRB.value) (l.492)
TruthyStr(ch) == ch # ""

\* struct.pack('<I' | '>I' | '<Q' | '>Q', v): the n bytes of v, in order
LittleEndian(v, n) == [i \in 1..n |-> (v \div (256 ^ (i - 1))) % 256]
Pack(v, n, big_endian) ==
    IF big_endian THEN [i \in 1..n |-> LittleEndian(v, n)[n + 1 - i]]
    ELSE LittleEndian(v, n)

\* struct.unpack of the same formats
RECURSIVE LittleValue(_)
LittleValue(b) ==
    IF b = <<>> THEN 0 ELSE b[1] + 256 * LittleValue(Tail(b))
Unpack(b, big_endian) ==
    IF big_endian THEN LittleValue([i \in 1..Len(b) |-> b[Len(b) + 1 - i]])
    ELSE LittleValue(b)

\* l.474: str(self.bus.WSTRB.value), the strobe bits as characters, the most
\* significant first
StrobeString(m, n) ==
    [i \in 1..n |-> IF (m \div (2 ^ (n - i))) % 2 = 1 THEN "1" ELSE "0"]

\* l.491-493: the bytes of _data go to memory wherever bool(_wstrb[idx]) holds
StoreBeat(mem, awaddr, data, wstrb) ==
    [i \in 1..Len(mem) |->
        IF i - 1 - awaddr \in 0..(Len(data) - 1) /\ TruthyStr(wstrb[i - awaddr])
        THEN data[i - awaddr] ELSE mem[i]]

\* AXI4LiteSlave.__init__ (l.385-425): fields, and the three coroutines, each
\* run to its first suspension
NewLite ==
    [on |-> TRUE, big_endian |-> FALSE, memory |-> Mem0,
     bresp |-> OKAY, rresp |-> OKAY, awaddr |-> None,
     wa |-> "idle",
     wd |-> [pc |-> "idle", wdata |-> None, wstrb |-> <<>>],
     rdt |-> [pc |-> "idle", araddr |-> None]]

\* l.412-416: the control signals the slave initialises
LiteInit(s) == [s EXCEPT !.AWREADY = 1, !.WREADY = 1, !.BVALID = 0,
                         !.ARREADY = 1, !.RVALID = 0]

\* setWrResponse (l.427-430)
SetWrResponse(code) ==
    /\ lite.on
    /\ ready = {}
    /\ lite' = IF code \in 0..3 THEN [lite EXCEPT !.bresp = code] ELSE lite
    /\ UNCHANGED <<bus, nxt, ready, wr, rd, write_address_busy, write_data_busy,
                   read_address_busy, burst, touched>>

\* setRdResponse (l.432-435)
SetRdResponse(code) ==
    /\ lite.on
    /\ ready = {}
    /\ lite' = IF code \in 0..3 THEN [lite EXCEPT !.rresp = code] ELSE lite
    /\ UNCHANGED <<bus, nxt, ready, wr, rd, write_address_busy, write_data_busy,
                   read_address_busy, burst, touched>>

\* l.454: the address-phase task waits while the latch is set
AddressHeld(awaddr) == Truthy(awaddr)

\* _write_address resumed at a rising edge (l.439-456)
ResumeLiteAddress ==
    /\ Task("lite_wa", 0) \in ready
    /\ MasterResumed
    /\ ready' = ready \ {Task("lite_wa", 0)}
    /\ CASE lite.wa = "idle" /\ bus.AWVALID # 0 ->
              /\ lite' = [lite EXCEPT !.awaddr = bus.AWADDR, !.wa = "wait"]
              /\ nxt' = [nxt EXCEPT !.AWREADY = 0]
         [] lite.wa = "wait" /\ AddressHeld(lite.awaddr) ->
              UNCHANGED <<lite, nxt>>
         [] OTHER ->
              /\ lite' = [lite EXCEPT !.wa = "idle"]
              /\ nxt' = [nxt EXCEPT !.AWREADY = 1]
    /\ UNCHANGED <<bus, wr, rd, write_address_busy, write_data_busy,
                   read_address_busy, burst, touched>>

\* l.484-517 of _write_data, from the pack on: the store, the response
\* signals; or the exception that ends the task
CompleteWrite(l, s) ==
    IF NameBound("struct")
    THEN [lite |-> [l EXCEPT !.memory = StoreBeat(l.memory, l.awaddr,
                                 Pack(l.wd.wdata, bytes_per_beat, l.big_endian),
                                 l.wd.wstrb),
                             !.wd.pc = "bresp"],
          nxt |-> [s EXCEPT !.BRESP = l.bresp, !.BVALID = 1]]
    ELSE [lite |-> [l EXCEPT !.wd.pc = "dead"], nxt |-> s]

\* _write_data resumed at a rising edge (l.460-517)
ResumeLiteData ==
    /\ Task("lite_wd", 0) \in ready
    /\ MasterResumed
    /\ ready' = ready \ {Task("lite_wd", 0)}
    /\ CASE lite.wd.pc = "idle" /\ bus.WVALID # 0 ->
              /\ lite' = [lite EXCEPT !.wd = [pc |-> "got", wdata |-> bus.WDATA,
                              wstrb |-> StrobeString(bus.WSTRB, bytes_per_beat)]]
              /\ nxt' = [nxt EXCEPT !.WREADY = 0]
         [] lite.wd.pc = "idle" /\ bus.WVALID = 0 ->
              /\ lite' = lite
              /\ nxt' = [nxt EXCEPT !.WREADY = 1]
         [] lite.wd.pc \in {"got", "waitaddr"} /\ lite.awaddr = None ->
              /\ lite' = [lite EXCEPT !.wd.pc = "waitaddr"]
              /\ nxt' = nxt
         [] lite.wd.pc \in {"got", "waitaddr"} /\ lite.awaddr # None ->
              LET r == CompleteWrite(lite, nxt) IN
              /\ lite' = r.lite
              /\ nxt' = r.nxt
         [] lite.wd.pc = "bresp" /\ bus.BREADY = 0 ->
              UNCHANGED <<lite, nxt>>
         [] lite.wd.pc = "bresp" /\ bus.BREADY # 0 ->
              /\ lite' = [lite EXCEPT !.awaddr = None,
                              !.wd = [pc |-> "idle", wdata |-> None, wstrb |-> <<>>]]
              /\ nxt' = [nxt EXCEPT !.BVALID = 0, !.WREADY = 1]
    /\ UNCHANGED <<bus, wr, rd, write_address_busy, write_data_busy,
                   read_address_busy, burst, touched>>

\* l.531-539 of _read_data: the beat is fetched and driven; or the exception
\* that ends the task
AnswerRead(l, s, araddr) ==
    IF NameBound("struct")
    THEN [lite |-> [l EXCEPT !.rdt = [pc |-> "rresp", araddr |-> araddr]],
          nxt |-> [s EXCEPT !.ARREADY = 0, !.RVALID = 1, !.RRESP = l.rresp,
                     !.RDATA = Unpack(SubSeq(l.memory, araddr + 1,
                                             araddr + bytes_per_beat),
                                      l.big_endian)]]
    ELSE [lite |-> [l EXCEPT !.rdt = [pc |-> "dead", araddr |-> araddr]],
          nxt |-> [s EXCEPT !.ARREADY = 0]]

\* _read_data resumed at a rising edge (l.521-553)
ResumeLiteRead ==
    /\ Task("lite_rd", 0) \in ready
    /\ MasterResumed
    /\ ready' = ready \ {Task("lite_rd", 0)}
    /\ CASE lite.rdt.pc = "idle" /\ bus.ARVALID # 0 ->
              LET r == AnswerRead(lite, nxt, bus.ARADDR) IN
              /\ lite' = r.lite
              /\ nxt' = r.nxt
         [] lite.rdt.pc = "idle" /\ bus.ARVALID = 0 ->
              /\ lite' = lite
              /\ nxt' = [nxt EXCEPT !.ARREADY = 1]
         [] lite.rdt.pc = "rresp" /\ bus.RREADY = 0 ->
              UNCHANGED <<lite, nxt>>
         [] lite.rdt.pc = "rresp" /\ bus.RREADY # 0 ->
              /\ lite' = [lite EXCEPT !.rdt = [pc |-> "idle", araddr |-> None]]
              /\ nxt' = [nxt EXCEPT !.ARREADY = 1]
    /\ UNCHANGED <<bus, wr, rd, write_address_busy, write_data_busy,
                   read_address_busy, burst, touched>>

\* the Lite slave's coroutines that wait for the next rising edge
LiteWaiters(l) ==
    IF ~l.on THEN {}
    ELSE {Task("lite_wa", 0)}
           \cup (IF l.wd.pc = "dead" THEN {} ELSE {Task("lite_wd", 0)})
           \cup (IF l.rdt.pc = "dead" THEN {} ELSE {Task("lite_rd", 0)})

-----------------------------------------------------------------------------
(* AXI4Slave.                                                              *)
(* wr  (_write_data): aw_ro (ReadOnly of l.276) | aw_edge (l.280) |        *)
(*                    beat (l.305, l.318) | dead (ended by an exception)   *)
(* rdt (_read_data):  ar_ro (ReadOnly of l.326) | ar_edge (l.329) |        *)
(*                    r_first (l.354) | r_ro (ReadOnly of l.358) |         *)
(*                    r_edge (l.367) | dead                                *)
(* A ReadOnly() awaited in the read-only window (l.282, l.331) returns in  *)
(* the same window.  An assignment made in the window (l.278, l.364,       *)
(* l.366) is pending like any other and settles at the end of the next     *)
(* time step, unless the coroutine assigns the wire again before.          *)

\* l.264-267
size_to_bytes_in_beat(AxSIZE) == IF AxSIZE < 7 THEN 2 ^ AxSIZE ELSE None

\* python's m[st:end] for 0 <= st, end
PySlice(m, st, end) ==
    LET a == Min(st, Len(m))
        e == Max(Min(end, Len(m)), a)
    IN  SubSeq(m, a + 1, e)

\* python's m[st:end] = buf on an array.array: the slice is replaced by buf,
\* whatever its length
PySliceAssign(m, st, end, buf) ==
    LET a == Min(st, Len(m))
        e == Max(Min(end, Len(m)), a)
    IN  SubSeq(m, 1, a) \o buf \o SubSeq(m, e + 1, Len(m))

\* word.get_buff() of the sampled WDATA (l.309-314): every byte of the wire
BeatImage(wdata, big_endian) == Pack(wdata, data_width \div 8, big_endian)

\* l.311-313: the byte range of the beat
BeatStart(awaddr, burst_length, burst_count, bytes_in_beat) ==
    awaddr + (burst_length - burst_count) * bytes_in_beat

BeatEnd(awaddr, burst_length, burst_count, bytes_in_beat) ==
    awaddr + ((burst_length - burst_count) + 1) * bytes_in_beat

\* l.314: the memory write of one beat
WriteBeat(mem, t, wdata, big_endian) ==
    PySliceAssign(mem,
                  BeatStart(t.addr, t.burst_length, t.burst_count, t.bytes_in_beat),
                  BeatEnd(t.addr, t.burst_length, t.burst_count, t.bytes_in_beat),
                  BeatImage(wdata, big_endian))

\* l.363-364: the beat loaded for RDATA
ReadBeat(mem, t, big_endian) ==
    Unpack(PySlice(mem,
                   BeatStart(t.addr, t.burst_length, t.burst_count, t.bytes_in_beat),
                   BeatEnd(t.addr, t.burst_length, t.burst_count, t.bytes_in_beat)),
           big_endian)

IdlePath(pc) == [pc |-> pc, addr |-> 0, burst_length |-> 0, bytes_in_beat |-> 0,
                 burst_count |-> 0]

\* AXI4Slave.__init__ (l.244-262): both coroutines run to their first ReadOnly
NewBurst == [on |-> TRUE, big_endian |-> FALSE, memory |-> Mem0,
             wr |-> IdlePath("aw_ro"), rdt |-> IdlePath("ar_ro")]

\* l.251-254, and l.275 of the forked _write_data
BurstInit(s) == [s EXCEPT !.ARREADY = 1, !.RVALID = 0, !.RLAST = 0,
                          !.AWREADY = 1, !.WREADY = 0]

\* a latch that takes an undecodable size as the width of the bus
LatchClamped(addr, len, size) ==
    LET n == IF size_to_bytes_in_beat(size) = None THEN bytes_per_beat
             ELSE size_to_bytes_in_beat(size)
    IN  [pc |-> "go", addr |-> addr, burst_length |-> len + 1,
         bytes_in_beat |-> n, burst_count |-> len + 1]

\* l.283-305: the request is latched; a size of 7 gives no beat width and
\* l.292 (l.341) raises TypeError
Latch(addr, len, size) ==
    IF size_to_bytes_in_beat(size) = None THEN IdlePath("dead")
    ELSE [pc |-> "go", addr |-> addr, burst_length |-> len + 1,
          bytes_in_beat |-> size_to_bytes_in_beat(size), burst_count |-> len + 1]

\* _write_data resumed at a rising edge
ResumeBurstWrite ==
    /\ Task("burst_wr", 0) \in ready
    /\ ready' = ready \ {Task("burst_wr", 0)}
    /\ LET t == burst.wr IN
       CASE t.pc = "aw_edge" ->
              \* l.280 -> l.275-276
              /\ burst' = [burst EXCEPT !.wr.pc = "aw_ro"]
              /\ nxt' = [nxt EXCEPT !.WREADY = 0]
              /\ UNCHANGED touched
         [] t.pc = "beat" /\ bus.WVALID = 0 ->
              \* l.308, l.318
              UNCHANGED <<burst, nxt, touched>>
         [] t.pc = "beat" /\ bus.WVALID # 0 ->
              \* l.308-318, and l.275-276 after the last beat
              /\ burst' = [burst EXCEPT
                     !.memory = WriteBeat(burst.memory, t, bus.WDATA, burst.big_endian),
                     !.wr = IF t.burst_count = 1 THEN IdlePath("aw_ro")
                            ELSE [t EXCEPT !.burst_count = @ - 1]]
              /\ nxt' = IF t.burst_count = 1 THEN [nxt EXCEPT !.WREADY = 0] ELSE nxt
              /\ touched' = touched \cup
                    (BeatStart(t.addr, t.burst_length, t.burst_count, t.bytes_in_beat)
                       .. (BeatEnd(t.addr, t.burst_length, t.burst_count, t.bytes_in_beat) - 1))
    /\ UNCHANGED <<bus, wr, rd, write_address_busy, write_data_busy,
                   read_address_busy, lite>>

\* _read_data resumed at a rising edge
ResumeBurstRead ==
    /\ Task("burst_rd", 0) \in ready
    /\ ready' = ready \ {Task("burst_rd", 0)}
    /\ LET t == burst.rdt IN
       CASE t.pc = "ar_edge" ->
              \* l.329 -> l.326
              /\ burst' = [burst EXCEPT !.rdt.pc = "ar_ro"]
              /\ nxt' = nxt
         [] t.pc = "r_first" ->
              \* l.354 -> l.357-358
              /\ burst' = [burst EXCEPT !.rdt.pc = "r_ro"]
              /\ nxt' = [nxt EXCEPT !.RVALID = 1]
         [] t.pc = "r_edge" /\ t.burst_count = 1 ->
              \* l.367-371 -> l.326
              /\ burst' = [burst EXCEPT !.rdt = IdlePath("ar_ro")]
              /\ nxt' = [nxt EXCEPT !.RLAST = 0]
         [] t.pc = "r_edge" /\ t.burst_count # 1 ->
              \* l.367-371 -> l.357-358
              /\ burst' = [burst EXCEPT !.rdt.pc = "r_ro", !.rdt.burst_count = @ - 1]
              /\ nxt' = [nxt EXCEPT !.RLAST = 0, !.RVALID = 1]
    /\ UNCHANGED <<bus, wr, rd, write_address_busy, write_data_busy,
                   read_address_busy, lite, touched>>

\* the read-only window of _write_data (l.276-305) on the settled bus b
SampleBurstWrite(t, b) ==
    CASE t.pc = "aw_ro" /\ b.AWVALID # 0 ->
           LET n == Latch(b.AWADDR, b.AWLEN, b.AWSIZE) IN
           IF n.pc = "dead" THEN n ELSE [n EXCEPT !.pc = "beat"]
      [] t.pc = "aw_ro" /\ b.AWVALID = 0 -> [t EXCEPT !.pc = "aw_edge"]
      [] OTHER -> t

\* the read-only window of _read_data (l.326-354, l.358-367) on the settled bus b
SampleBurstRead(t, b) ==
    CASE t.pc = "ar_ro" /\ b.ARVALID # 0 ->
           LET n == Latch(b.ARADDR, b.ARLEN, b.ARSIZE) IN
           IF n.pc = "dead" THEN n ELSE [n EXCEPT !.pc = "r_first"]
      [] t.pc = "ar_ro" /\ b.ARVALID = 0 -> [t EXCEPT !.pc = "ar_edge"]
      [] t.pc = "r_ro" -> [t EXCEPT !.pc = "r_edge"]
      [] OTHER -> t

\* the assignments the two coroutines make in the read-only window (l.278,
\* l.364-366): pending on top of the settled bus b
SampleBurstSignals(u, b) ==
    LET s1 == IF u.wr.pc = "aw_ro" /\ b.AWVALID # 0 THEN [b EXCEPT !.WREADY = 1] ELSE b
        s2 == IF u.rdt.pc = "r_ro" /\ b.RREADY # 0
              THEN [s1 EXCEPT !.RDATA = ReadBeat(u.memory, u.rdt, u.big_endian),
                              !.RLAST = IF u.rdt.burst_count = 1 THEN 1 ELSE @]
              ELSE s1
    IN  s2

SampleBurst(u, b) ==
    IF ~u.on THEN u
    ELSE [u EXCEPT !.wr = SampleBurstWrite(u.wr, b), !.rdt = SampleBurstRead(u.rdt, b)]

\* the burst slave's coroutines that wait for the next rising edge
BurstWaiters(u) ==
    IF ~u.on THEN {}
    ELSE (IF u.wr.pc \in {"aw_edge", "beat"} THEN {Task("burst_wr", 0)} ELSE {})
           \cup (IF u.rdt.pc \in {"ar_edge", "r_first", "r_edge"}
                 THEN {Task("burst_rd", 0)} ELSE {})

-----------------------------------------------------------------------------
(* The clock.                                                              *)

\* a call that has returned or raised leaves its slot at the end of the time step
Retire(c, idle) == IF c.pc = "done" THEN idle ELSE c

\* the end of a time step: the assignments settle to b, the read-only window
\* runs, and the next rising edge resumes who waits for it
Cycle(b) ==
    /\ ready = {}
    /\ bus' = b
    /\ nxt' = IF burst.on THEN SampleBurstSignals(burst, b) ELSE b
    /\ burst' = SampleBurst(burst, b)
    /\ wr' = [w \in Writers |-> SampleWrite(Retire(wr[w], IdleWrite), b)]
    /\ rd' = [r \in Readers |-> SampleRead(Retire(rd[r], IdleRead), b)]
    /\ ready' = MasterWaiters(wr', rd') \cup LiteWaiters(lite) \cup BurstWaiters(burst')
    /\ UNCHANGED <<write_address_busy, write_data_busy, read_address_busy,
                   lite, touched>>

-----------------------------------------------------------------------------
(* AXI4LiteMaster against an arbitrary peer.  The peer drives the ready    *)
(* and response wires; a wire that no coroutine samples in this window is  *)
(* kept 0, and a payload is kept 0 while its valid is 0.                   *)

ReadData == {7, 9}

PeerB == {[BVALID |-> 0, BRESP |-> 0]} \cup [BVALID : {1}, BRESP : RespCodes]
PeerR == {[RVALID |-> 0, RRESP |-> 0, RDATA |-> 0]}
           \cup [RVALID : {1}, RRESP : RespCodes, RDATA : ReadData]

SettleMaster ==
    \E awready \in IF \E w \in Writers : wr[w].apc = "sample" THEN {0, 1} ELSE {0},
       wready \in IF \E w \in Writers : wr[w].dpc = "sample" THEN {0, 1} ELSE {0},
       b \in IF \E w \in Writers : wr[w].pc = "resp" THEN PeerB ELSE {[BVALID |-> 0, BRESP |-> 0]},
       arready \in IF \E r \in Readers : rd[r].pc = "ar_sample" THEN {0, 1} ELSE {0},
       r \in IF \E x \in Readers : rd[x].pc = "r_sample" THEN PeerR
             ELSE {[RVALID |-> 0, RRESP |-> 0, RDATA |-> 0]} :
        Cycle([nxt EXCEPT !.AWREADY = awready, !.WREADY = wready,
                          !.BVALID = b.BVALID, !.BRESP = b.BRESP,
                          !.ARREADY = arready, !.RVALID = r.RVALID,
                          !.RRESP = r.RRESP, !.RDATA = r.RDATA])

InitMaster ==
    /\ bus = MasterInit(Signals)
    /\ nxt = MasterInit(Signals)
    /\ ready = {}
    /\ wr = [w \in Writers |-> IdleWrite]
    /\ rd = [r \in Readers |-> IdleRead]
    /\ write_address_busy = NewLock
    /\ write_data_busy = NewLock
    /\ read_address_busy = NewLock
    /\ lite = [on |-> FALSE]
    /\ burst = [on |-> FALSE]
    /\ touched = {}

\* write() against an arbitrary peer: the master only forwards value and
\* byte_enable, each address is written with a value of its own
ValueOf(a) == IF a = 0 THEN 16909060 ELSE 84281096 + a

WriteCalls ==
    \E w \in Writers, a \in Addresses, al \in Latencies, dl \in Latencies,
       sync \in BOOLEAN :
         CallWrite(w, a, ValueOf(a), 15, al, dl, sync)

ReadCalls == \E r \in Readers, a \in Addresses, sync \in BOOLEAN : CallRead(r, a, sync)

NextWrites ==
    \/ WriteCalls
    \/ \E w \in Writers : ResumeWrite(w)
    \/ \E w \in Writers : ResumeAddress(w)
    \/ \E w \in Writers : ResumeData(w)
    \/ SettleMaster

NextReads ==
    \/ ReadCalls
    \/ \E r \in Readers : ResumeRead(r)
    \/ SettleMaster

\* overlapping write() calls on one master, the peer arbitrary
SpecWrites == InitMaster /\ [][NextWrites]_vars

\* overlapping read() calls on one master, the peer arbitrary
SpecReads == InitMaster /\ [][NextReads]_vars

\* one write() and one read() at a time on one master, the peer arbitrary
NextMasterRW ==
    \/ \E a \in Addresses, al \in Latencies, dl \in Latencies, sync \in BOOLEAN :
            CallWrite(1, a, ValueOf(a), 15, al, dl, sync)
    \/ \E a \in Addresses, sync \in BOOLEAN : CallRead(1, a, sync)
    \/ ResumeWrite(1)
    \/ ResumeAddress(1)
    \/ ResumeData(1)
    \/ ResumeRead(1)
    \/ SettleMaster

SpecMasterRW == InitMaster /\ [][NextMasterRW]_vars

-----------------------------------------------------------------------------
(* AXI4LiteMaster and AXI4LiteSlave on the same bus.                       *)

InitLite ==
    /\ bus = LiteInit(MasterInit(Signals))
    /\ nxt = LiteInit(MasterInit(Signals))
    /\ ready = {}
    /\ wr = [w \in Writers |-> IdleWrite]
    /\ rd = [r \in Readers |-> IdleRead]
    /\ write_address_busy = NewLock
    /\ write_data_busy = NewLock
    /\ read_address_busy = NewLock
    /\ lite = NewLite
    /\ burst = [on |-> FALSE]
    /\ touched = {}

SettleLite == Cycle(nxt)

\* the codes the test passes to setWrResponse and setRdResponse: OKAY, SLVERR
\* and one outside range(0, 4)
ConfigCodes == {0, 2, 4}

\* overlapping write() calls through the master, and setWrResponse
LiteWriteCalls ==
    \E w \in 1..MaxLiteWrites, a \in Addresses, v \in Values, be \in ByteEnables,
       al \in Latencies, dl \in Latencies, sync \in BOOLEAN :
         CallWrite(w, a, v, be, al, dl, sync)

NextLite ==
    \/ LiteWriteCalls
    \/ \E w \in Writers : ResumeWrite(w)
    \/ \E w \in Writers : ResumeAddress(w)
    \/ \E w \in Writers : ResumeData(w)
    \/ \E code \in ConfigCodes : SetWrResponse(code)
    \/ ResumeLiteAddress
    \/ ResumeLiteData
    \/ ResumeLiteRead
    \/ SettleLite

SpecLite == InitLite /\ [][NextLite]_vars

\* one write() and one read() at a time through the master, setWrResponse and
\* setRdResponse
NextLiteRW ==
    \/ \E a \in Addresses, v \in Values, be \in ByteEnables,
          al \in Latencies, dl \in Latencies, sync \in BOOLEAN :
            CallWrite(1, a, v, be, al, dl, sync)
    \/ \E a \in Addresses, sync \in BOOLEAN : CallRead(1, a, sync)
    \/ ResumeWrite(1)
    \/ ResumeAddress(1)
    \/ ResumeData(1)
    \/ ResumeRead(1)
    \/ \E code \in ConfigCodes : SetWrResponse(code)
    \/ \E code \in ConfigCodes : SetRdResponse(code)
    \/ ResumeLiteAddress
    \/ ResumeLiteData
    \/ ResumeLiteRead
    \/ SettleLite

SpecLiteRW == InitLite /\ [][NextLiteRW]_vars

\* The same system with a running clock: the scheduler resumes every coroutine
\* that waits for an edge, and the simulator goes on to the next time step.
LiteStep ==
    \/ ResumeWrite(1)
    \/ ResumeAddress(1)
    \/ ResumeData(1)
    \/ ResumeRead(1)
    \/ ResumeLiteAddress
    \/ ResumeLiteData
    \/ ResumeLiteRead
    \/ SettleLite

FairLiteRW == InitLite /\ [][NextLiteRW]_vars /\ WF_vars(LiteStep)

\* Overlapping write() calls with a running clock
LiteWritesStep ==
    \/ \E w \in Writers : ResumeWrite(w)
    \/ \E w \in Writers : ResumeAddress(w)
    \/ \E w \in Writers : ResumeData(w)
    \/ ResumeLiteAddress
    \/ ResumeLiteData
    \/ ResumeLiteRead
    \/ SettleLite

FairLite == InitLite /\ [][NextLite]_vars /\ WF_vars(LiteWritesStep)

-----------------------------------------------------------------------------
(* AXI4Slave against an arbitrary peer.  The peer drives the request and   *)
(* data wires; a wire that the slave does not sample next is kept 0, a     *)
(* payload is kept 0 while its valid is 0, a request fits the memory       *)
(* image, and the peer issues no request once the image has changed size.  *)

\* largest AWLEN / ARLEN of a request
MaxLen == 1

BurstSizes == {1, 2, 7}

Requests ==
    {q \in [addr : Addresses, len : 0..MaxLen, size : BurstSizes] :
        q.size < 7 => q.addr + (q.len + 1) * (2 ^ q.size) <= MemSize}

NoRequest == [valid |-> 0, addr |-> 0, len |-> 0, size |-> 0]

PeerRequests(observed) ==
    IF observed /\ Len(burst.memory) = MemSize
    THEN {NoRequest} \cup {[valid |-> 1, addr |-> q.addr, len |-> q.len, size |-> q.size] :
                            q \in Requests}
    ELSE {NoRequest}

PeerData(observed) ==
    IF observed THEN {[valid |-> 0, data |-> 0]} \cup [valid : {1}, data : Values]
    ELSE {[valid |-> 0, data |-> 0]}

PeerSettle(aw, w, ar, rready) ==
    Cycle([nxt EXCEPT !.AWVALID = aw.valid, !.AWADDR = aw.addr,
                      !.AWLEN = aw.len, !.AWSIZE = aw.size,
                      !.WVALID = w.valid, !.WDATA = w.data,
                      !.ARVALID = ar.valid, !.ARADDR = ar.addr,
                      !.ARLEN = ar.len, !.ARSIZE = ar.size,
                      !.RREADY = rready])

\* the peer issues write bursts only
SettleBurstWrite ==
    \E aw \in PeerRequests(burst.wr.pc = "aw_ro"),
       w \in PeerData(burst.wr.pc \in {"aw_ro", "beat"}) :
        PeerSettle(aw, w, NoRequest, 0)

\* the peer issues read bursts only
SettleBurstRead ==
    \E ar \in PeerRequests(burst.rdt.pc = "ar_ro"),
       rready \in IF burst.rdt.pc = "r_ro" THEN {0, 1} ELSE {0} :
        PeerSettle(NoRequest, [valid |-> 0, data |-> 0], ar, rready)

InitBurst ==
    /\ bus = BurstInit(Signals)
    /\ nxt = BurstInit(Signals)
    /\ ready = {}
    /\ wr = [w \in Writers |-> IdleWrite]
    /\ rd = [r \in Readers |-> IdleRead]
    /\ write_address_busy = NewLock
    /\ write_data_busy = NewLock
    /\ read_address_busy = NewLock
    /\ lite = [on |-> FALSE]
    /\ burst = NewBurst
    /\ touched = {}

NextBurstWrite ==
    \/ ResumeBurstWrite
    \/ ResumeBurstRead
    \/ SettleBurstWrite

NextBurstRead ==
    \/ ResumeBurstWrite
    \/ ResumeBurstRead
    \/ SettleBurstRead

SpecBurstWrite == InitBurst /\ [][NextBurstWrite]_vars

SpecBurstRead == InitBurst /\ [][NextBurstRead]_vars

\* requests whose beats are as wide as the bus, or whose size has no width
WholeBeatRequests(observed) ==
    {q \in PeerRequests(observed) :
        q.valid = 0 \/ size_to_bytes_in_beat(q.size) \in {bytes_per_beat, None}}

\* the peer issues write bursts and read bursts
SettleBurst ==
    \E aw \in WholeBeatRequests(burst.wr.pc = "aw_ro"),
       w \in PeerData(burst.wr.pc \in {"aw_ro", "beat"}),
       ar \in WholeBeatRequests(burst.rdt.pc = "ar_ro"),
       rready \in IF burst.rdt.pc = "r_ro" THEN {0, 1} ELSE {0} :
        PeerSettle(aw, w, ar, rready)

NextBurst ==
    \/ ResumeBurstWrite
    \/ ResumeBurstRead
    \/ SettleBurst

SpecBurst == InitBurst /\ [][NextBurst]_vars

-----------------------------------------------------------------------------
(* Properties of the write channels of AXI4LiteMaster.                     *)

\* a call whose address (data) sub-task is between acquire() and release()
InAddressPhase(c) == c.apc \in {"granted", "delay", "sample", "fin"}
InDataPhase(c) == c.dpc \in {"granted", "delay", "sample", "fin"}

\* a call whose sub-task has asserted its valid and not yet deasserted it
DrivesAddress(c) == c.apc \in {"sample", "fin"}
DrivesData(c) == c.dpc \in {"sample", "fin"}

\* C1: on one master at most one write() is inside the write-address phase
\* and at most one inside the write-data phase; while a call drives a channel
\* the wires carry that call's own assignments, and a call that holds a lock
\* without having driven yet (or no call at all) finds the valid of the
\* channel assigned 0 by the call before it.
C1_WriteChannelsExclusive ==
    /\ Cardinality({w \in Writers : InAddressPhase(wr[w])}) <= 1
    /\ Cardinality({w \in Writers : InDataPhase(wr[w])}) <= 1
    /\ \A w \in Writers :
         /\ DrivesAddress(wr[w]) => nxt.AWVALID = 1 /\ nxt.AWADDR = wr[w].address
         /\ DrivesData(wr[w]) => nxt.WVALID = 1 /\ nxt.WDATA = ValueOf(wr[w].address)
    /\ (\A w \in Writers : ~DrivesAddress(wr[w])) => nxt.AWVALID = 0
    /\ (\A w \in Writers : ~DrivesData(wr[w])) => nxt.WVALID = 0

\* a later write() was handed the address lock by an earlier one that is done
\* with its address phase, while a third write() to another address drives data
C1_Handover ==
    \E u, w \in Writers :
        /\ wr[u].apc = "done"
        /\ wr[w].apc = "granted"
        /\ wr[u].address # wr[w].address
        /\ \E x \in Writers : DrivesData(wr[x]) /\ wr[x].address # wr[w].address

-----------------------------------------------------------------------------
(* Properties of the read channels of AXI4LiteMaster.                      *)

InReadAddressPhase(c) == c.pc \in {"ar_sample", "ar_fin"}

\* C2: on one master at most one read() is inside the read-address phase, and
\* while a read() is inside it ARADDR and ARVALID carry that call's assignments.
C2_ReadAddressExclusive ==
    /\ Cardinality({r \in Readers : InReadAddressPhase(rd[r])}) <= 1
    /\ \A r \in Readers :
         InReadAddressPhase(rd[r]) => nxt.ARVALID = 1 /\ nxt.ARADDR = rd[r].address

-----------------------------------------------------------------------------
(* Properties of the write path of AXI4LiteSlave.                          *)

\* C3: while the slave holds a latched write address (any address, zero
\* included) its address-phase task waits with AWREADY assigned 0, so that no
\* second address is accepted before the data-phase task clears the latch.
C3_SingleOutstandingWrite ==
    lite.awaddr # None => lite.wa = "wait" /\ nxt.AWREADY = 0

\* bit k (0 the least significant) of the strobe the data-phase task holds
StrobeBit(wstrb, k) == wstrb[Len(wstrb) - k] = "1"

\* the image after a write of data at awaddr under the strobe: byte i of the
\* data (0 the least significant) replaces byte awaddr+i where bit i is set
StrobeMerge(mem, awaddr, data, wstrb) ==
    [i \in 1..Len(mem) |->
        LET k == i - 1 - awaddr IN
        IF k \in 0..(bytes_per_beat - 1) /\ StrobeBit(wstrb, k)
        THEN LittleEndian(data, bytes_per_beat)[k + 1] ELSE mem[i]]

\* the data-phase task is past the store of the beat it holds
PastStore(l) == l.wd.pc \in {"bresp", "dead"}

\* C4: once the data-phase task has handled the first write it accepted
\* (data V, strobe S, latched address A), memory byte A+i holds byte i of V for
\* every set bit i of S, and every other byte is as it was.
C4_StrobeStore ==
    PastStore(lite) =>
        lite.memory = StrobeMerge(Mem0, lite.awaddr, lite.wd.wdata, lite.wd.wstrb)

\* the beat of the image that read(a) fetches
BeatAt(mem, a) == Unpack(SubSeq(mem, a + 1, a + bytes_per_beat), FALSE)

\* C5: with the default response configuration a write(a, v) with all-ones
\* byte enable returns and leaves v in the beat at a, and a read(a) returns
\* the beat the image holds at a.
C5_WriteReadRoundTrip ==
    /\ \A a \in Addresses, v \in Values :
         (wr[1].pc = "sync" /\ wr[1].address = a /\ wr[1].value = v
             /\ wr[1].byte_enable = 15)
           ~> \/ /\ wr[1].pc = "done"
                 /\ wr[1].outcome = "return"
                 /\ BeatAt(lite.memory, a) = v
              \/ lite.bresp # OKAY
    /\ \A a \in Addresses :
         (rd[1].pc = "sync" /\ rd[1].address = a)
           ~> \/ /\ rd[1].pc = "done"
                 /\ rd[1].outcome = "return"
                 /\ rd[1].data = BeatAt(lite.memory, a)
              \/ lite.rresp # OKAY

-----------------------------------------------------------------------------
(* Properties of the response handling of AXI4LiteMaster.                  *)

\* C6: write() ends only after it sampled BVALID and BREADY both nonzero, and
\* then raises exactly when the BRESP it captured there is nonzero; read()
\* ends only in a window where RVALID and RREADY are both nonzero, and then
\* raises exactly when the RRESP it captures there is nonzero, else it returns
\* the RDATA of that window.
C6_ErrorIffNonzeroCode ==
    [][ /\ \A w \in Writers :
             (wr[w].pc # "done" /\ wr'[w].pc = "done") =>
                 /\ wr[w].pc = "ret"
                 /\ bus.BVALID # 0 /\ bus.BREADY # 0
                 /\ wr'[w].result = bus.BRESP
                 /\ (wr'[w].outcome = "error") <=> (bus.BRESP # 0)
                 /\ (wr'[w].outcome = "return") <=> (bus.BRESP = 0)
        /\ \A r \in Readers :
             (rd[r].pc # "done" /\ rd'[r].pc = "done") =>
                 /\ rd[r].pc = "r_sample"
                 /\ bus'.RVALID # 0 /\ bus'.RREADY # 0
                 /\ rd'[r].result = bus'.RRESP
                 /\ rd'[r].data = bus'.RDATA
                 /\ (rd'[r].outcome = "error") <=> (bus'.RRESP # 0)
                 /\ (rd'[r].outcome = "return") <=> (bus'.RRESP = 0)
      ]_vars

\* a write() has raised on SLVERR in the time step in which a read() returned
C6_WriteRaisedReadReturned ==
    /\ wr[1].pc = "done" /\ wr[1].outcome = "error" /\ wr[1].result = 2
    /\ rd[1].pc = "done" /\ rd[1].outcome = "return" /\ rd[1].result = 0

\* C7 (as the code has it): a write() or read() that captured EXOKAY (1)
\* raises the protocol error; OKAY (0) is the only code that is a success.
C7_ExokayRaises ==
    /\ \A w \in Writers :
         wr[w].pc = "done" =>
             (wr[w].outcome = "return" <=> wr[w].result = OKAY)
               /\ (wr[w].result = 1 => wr[w].outcome = "error")
    /\ \A r \in Readers :
         rd[r].pc = "done" =>
             (rd[r].outcome = "return" <=> rd[r].result = OKAY)
               /\ (rd[r].result = 1 => rd[r].outcome = "error")

\* a read() has ended having captured EXOKAY
C7_ReadGotExokay == rd[1].pc = "done" /\ rd[1].result = 1

\* C7 (as stated): a write() or read() that captured EXOKAY (1) returns like
\* one that captured OKAY.
C7_ExokayIsSuccess ==
    /\ \A w \in Writers :
         wr[w].pc = "done" /\ wr[w].result = 1 => wr[w].outcome = "return"
    /\ \A r \in Readers :
         rd[r].pc = "done" /\ rd[r].result = 1 => rd[r].outcome = "return"

\* C8: a write() issued while the slave is configured with SLVERR (2) ends
\* with the protocol error carrying code 2, unless the slave is reconfigured
\* before.
C8_ConfiguredErrorReported ==
    (wr[1].pc = "sync" /\ lite.bresp = 2)
      ~> \/ wr[1].pc = "done" /\ wr[1].outcome = "error" /\ wr[1].result = 2
         \/ lite.bresp # 2

-----------------------------------------------------------------------------
(* Properties of the channel locks.                                        *)

Waiting(lock) == {lock.queue[i] : i \in 1..Len(lock.queue)}

-----------------------------------------------------------------------------
(* Properties of the write path of AXI4Slave.                              *)

\* C10: a write burst changes only the bytes of the beat ranges of its
\* accepted beats (collected in touched): the image keeps its size, and every
\* byte outside those ranges is as it was.
C10_BurstWriteRanges ==
    /\ Len(burst.memory) = MemSize
    /\ \A i \in 1..MemSize : (i - 1) \notin touched => burst.memory[i] = Mem0[i]

-----------------------------------------------------------------------------
(* Properties of the read path of AXI4Slave.                               *)

\* _read_data is at the edge that ends the last cycle it counts for a burst
LastBeatCounted(t) == t.pc = "r_edge" /\ t.burst_count = 1

\* C11: a read burst ends with RLAST marking its final beat: when _read_data
\* leaves the burst at the edge after the last cycle it counts, it has
\* assigned RLAST 1 in that cycle's read-only window, and RLAST is assigned 1
\* in no cycle before the last.
C11_LastBeatMarked ==
    [][ /\ (LastBeatCounted(burst.rdt) /\ burst'.rdt.pc = "ar_ro") => nxt.RLAST = 1
        /\ (burst.rdt.pc = "r_edge" /\ ~LastBeatCounted(burst.rdt)) => nxt.RLAST = 0
      ]_vars

-----------------------------------------------------------------------------
(* Construction and configuration of AXI4LiteSlave, with the outcome of    *)
(* each call on record: the bus width is an input of the constructor, and  *)
(* call holds the last configuration call and its argument.                *)

\* widths of the WDATA wire the slave may be constructed on
BusWidths == {16, 32, 64, 128}

\* arguments passed to setWrResponse and setRdResponse
ConfigArgs == (0 - 1)..5

\* l.423-425: the coroutines __init__ forks
LiteTasks == {Task("lite_wa", 0), Task("lite_wd", 0), Task("lite_rd", 0)}

\* AXI4LiteSlave.__init__ (l.385-425) on a bus of the given width: l.399-402
\* raise ValueError before the coroutines are forked
ConstructLite(width) ==
    IF width \notin {32, 64}
    THEN [on |-> FALSE, data_width |-> width, raised |-> "ValueError",
          forked |-> {}, bresp |-> OKAY, rresp |-> OKAY,
          call |-> [op |-> "__init__", code |-> None]]
    ELSE [on |-> TRUE, data_width |-> width, raised |-> "none",
          forked |-> LiteTasks, bresp |-> OKAY, rresp |-> OKAY,
          call |-> [op |-> "__init__", code |-> None]]

\* setWrResponse storing its argument without the test of l.428
StoreWrResponse(code) ==
    /\ lite.on
    /\ lite' = [lite EXCEPT !.bresp = code, !.raised = "none",
                            !.call = [op |-> "setWrResponse", code |-> code]]
    /\ UNCHANGED <<bus, nxt, ready, wr, rd, write_address_busy, write_data_busy,
                   read_address_busy, burst, touched>>

\* setWrResponse (l.427-430) as a call of the test
CallSetWrResponse(code) ==
    /\ lite.on
    /\ lite' = IF code \in 0..3
               THEN [lite EXCEPT !.bresp = code, !.raised = "none",
                                 !.call = [op |-> "setWrResponse", code |-> code]]
               ELSE [lite EXCEPT !.raised = "ValueError",
                                 !.call = [op |-> "setWrResponse", code |-> code]]
    /\ UNCHANGED <<bus, nxt, ready, wr, rd, write_address_busy, write_data_busy,
                   read_address_busy, burst, touched>>

\* setRdResponse (l.432-435) as a call of the test
CallSetRdResponse(code) ==
    /\ lite.on
    /\ lite' = IF code \in 0..3
               THEN [lite EXCEPT !.rresp = code, !.raised = "none",
                                 !.call = [op |-> "setRdResponse", code |-> code]]
               ELSE [lite EXCEPT !.raised = "ValueError",
                                 !.call = [op |-> "setRdResponse", code |-> code]]
    /\ UNCHANGED <<bus, nxt, ready, wr, rd, write_address_busy, write_data_busy,
                   read_address_busy, burst, touched>>

InitConfig ==
    /\ bus = LiteInit(MasterInit(Signals))
    /\ nxt = LiteInit(MasterInit(Signals))
    /\ ready = {}
    /\ wr = [w \in Writers |-> IdleWrite]
    /\ rd = [r \in Readers |-> IdleRead]
    /\ write_address_busy = NewLock
    /\ write_data_busy = NewLock
    /\ read_address_busy = NewLock
    /\ lite \in {ConstructLite(width) : width \in BusWidths}
    /\ burst = [on |-> FALSE]
    /\ touched = {}

NextConfig ==
    \/ \E code \in ConfigArgs : CallSetWrResponse(code)
    \/ \E code \in ConfigArgs : CallSetRdResponse(code)

SpecConfig == InitConfig /\ [][NextConfig]_vars

\* C12: the slave is constructed, with its three coroutines forked, exactly on
\* a bus 32 or 64 bits wide, and else the constructor raises with nothing
\* forked; setWrResponse(c) (setRdResponse(c)) stores c as bresp (rresp) when
\* c is one of 0, 1, 2, 3 and else raises and leaves bresp and rresp as they
\* were; neither call changes the other code.
C12_ConfigValidated ==
    /\ [](IF lite.data_width \in {32, 64}
          THEN lite.on /\ lite.forked = LiteTasks
          ELSE ~lite.on /\ lite.forked = {} /\ lite.raised = "ValueError")
    /\ [][ /\ lite'.call.op = "setWrResponse" =>
                /\ lite'.rresp = lite.rresp
                /\ IF lite'.call.code \in {0, 1, 2, 3}
                   THEN lite'.bresp = lite'.call.code /\ lite'.raised = "none"
                   ELSE lite'.bresp = lite.bresp /\ lite'.raised = "ValueError"
           /\ lite'.call.op = "setRdResponse" =>
                /\ lite'.bresp = lite.bresp
                /\ IF lite'.call.code \in {0, 1, 2, 3}
                   THEN lite'.rresp = lite'.call.code /\ lite'.raised = "none"
                   ELSE lite'.rresp = lite.rresp /\ lite'.raised = "ValueError"
         ]_vars

\* setRdResponse(5) has raised on a slave configured with bresp SLVERR and
\* rresp DECERR, which it has kept
C12_RejectedKeepsCodes ==
    /\ lite.on
    /\ lite.call = [op |-> "setRdResponse", code |-> 5]
    /\ lite.raised = "ValueError"
    /\ lite.bresp = 2
    /\ lite.rresp = 3

-----------------------------------------------------------------------------
(* Writes and reads on one AXI4LiteMaster.                                 *)

WriteWires(s) == <<s.AWADDR, s.AWVALID, s.WDATA, s.WVALID, s.WSTRB>>
ReadWires(s) == <<s.ARADDR, s.ARVALID>>

\* a write() whose sub-tasks both hold their locks and wait for a ready
WriteStalled(c) == c.apc = "sample" /\ c.dpc = "sample"

\* C13: a step that assigns ARADDR or ARVALID is a step of read() alone, a
\* step that assigns AWADDR, AWVALID, WDATA, WVALID or WSTRB or that touches a
\* lock is a step of write() alone; a read() that is past its first edge has
\* ARVALID and its address assigned whatever the locks are, and at the end of
\* a time step it goes on as ARREADY, RVALID and RREADY say, whatever the
\* write() does.
C13_WriteReadIndependent ==
    [][ /\ ReadWires(nxt') # ReadWires(nxt) => wr' = wr /\ rd' # rd
        /\ WriteWires(nxt') # WriteWires(nxt) => rd' = rd /\ wr' # wr
        /\ (write_address_busy' # write_address_busy
              \/ write_data_busy' # write_data_busy) => rd' = rd
        /\ read_address_busy' = read_address_busy
        /\ \A r \in Readers :
             /\ InReadAddressPhase(rd'[r]) /\ Cardinality({x \in Readers : rd'[x].pc # "idle"}) = 1
                  => nxt'.ARVALID = 1 /\ nxt'.ARADDR = rd'[r].address
             /\ SettleMaster =>
                  /\ (rd[r].pc = "ar_sample" /\ bus'.ARREADY # 0) => rd'[r].pc = "ar_fin"
                  /\ (rd[r].pc = "r_sample" /\ bus'.RVALID # 0 /\ bus'.RREADY # 0)
                       => rd'[r].pc = "done" /\ rd'[r].data = bus'.RDATA
      ]_vars

\* a read() has returned while a write() is stalled with both locks held
C13_ReadDoneWriteStalled ==
    /\ WriteStalled(wr[1])
    /\ write_address_busy.locked /\ write_data_busy.locked
    /\ rd[1].pc = "done" /\ rd[1].outcome = "return"

\* C14: _read_data goes on to the next beat of a read burst, or leaves the
\* burst after the last, only at the edge of a cycle in whose read-only window
\* RREADY was high and the bytes of the current beat were loaded to RDATA.
C14_BeatNeedsReady ==
    [][ (burst.rdt.pc = "r_edge" /\ burst'.rdt.burst_count # burst.rdt.burst_count) =>
            /\ bus.RREADY # 0
            /\ nxt.RDATA = ReadBeat(burst.memory, burst.rdt, burst.big_endian)
      ]_vars

-----------------------------------------------------------------------------
(* Further properties of AXI4LiteSlave.                                    *)

\* the write() calls whose data the slave has taken: they sampled WREADY high
DataAccepted == {w \in Writers : wr[w].dpc \in {"fin", "done"}}

\* C15: when the data-phase task does the store for the data it holds, that
\* data and an address have both been accepted, the address latch holds the
\* address of the write() whose data was taken, and the bytes of the data go
\* to memory at that address.
C15_StoreAtOwnAddress ==
    [][ (~PastStore(lite) /\ PastStore(lite')) =>
            /\ lite.wd.pc \in {"got", "waitaddr"}
            /\ lite.awaddr # None
            /\ \A w \in DataAccepted :
                 /\ lite.awaddr = wr[w].address
                 /\ \E k \in 0..(bytes_per_beat - 1) :
                      lite'.memory[wr[w].address + k + 1]
                        = LittleEndian(lite.wd.wdata, bytes_per_beat)[k + 1]
      ]_vars

\* the read-phase task has accepted a read address and not yet observed RREADY
ReadPending(l) == l.rdt.pc \in {"rresp", "dead"}

\* C16: the read-phase task has RVALID assigned 1 exactly while a read
\* response is pending: from the acceptance of a read address until RREADY is
\* observed, and 0 before the first read and after each accepted response.
C16_ReadValidWhilePending ==
    /\ ReadPending(lite) => nxt.RVALID = 1
    /\ ~ReadPending(lite) => nxt.RVALID = 0

\* C17: from the store on, and until the edge at which BREADY is sampled
\* high, the data-phase task has BVALID assigned 1, with BRESP the code
\* configured when the response was driven and unchanged since, and the
\* address latch is set; outside that interval BVALID is assigned 0.
C17_WriteResponseHeld ==
    [][ /\ PastStore(lite') => nxt'.BVALID = 1 /\ lite'.awaddr # None
        /\ ~PastStore(lite') => nxt'.BVALID = 0
        /\ (~PastStore(lite) /\ PastStore(lite')) => nxt'.BRESP = lite.bresp
        /\ (PastStore(lite) /\ PastStore(lite')) => nxt'.BRESP = nxt.BRESP
      ]_vars

-----------------------------------------------------------------------------
(* Further properties of AXI4LiteMaster.write().                           *)

\* write() is in or past its response loop
PastJoin(c) == c.pc \in {"resp", "ret", "done"}

\* C18: a write() is in or past its response loop only when both its
\* sub-tasks are finished, each of them finishes only from the edge after a
\* window in which it saw its ready nonzero, a lock is taken exactly while
\* some call is between its acquire and its release, and a write() is about
\* to return or raise only after a window with BVALID and BREADY nonzero.
C18_ResponseAfterBothPhases ==
    /\ \A w \in Writers :
         /\ PastJoin(wr[w]) => wr[w].apc = "done" /\ wr[w].dpc = "done"
         /\ wr[w].apc = "fin" => bus.AWREADY # 0
         /\ wr[w].dpc = "fin" => bus.WREADY # 0
         /\ wr[w].pc = "ret" => bus.BVALID # 0 /\ bus.BREADY # 0
         /\ wr[w].outcome # "none" => wr[w].pc = "done"
    /\ write_address_busy.locked <=> \E w \in Writers : InAddressPhase(wr[w])
    /\ write_data_busy.locked <=> \E w \in Writers : InDataPhase(wr[w])

\* the data sub-task of a write() is finished while its address sub-task
\* still waits for AWREADY, and the write() has not gone on
C18_DataFirst ==
    \E w \in Writers :
        wr[w].dpc = "done" /\ wr[w].apc = "sample" /\ wr[w].pc = "join_addr"

\* C19: a write sub-task that has asserted its valid keeps the valid and its
\* payload assigned, and settled on the bus at the end of every time step,
\* until the window in which it sees its ready nonzero; it leaves its loop
\* only then, deasserts the valid and releases the lock at the very next
\* edge, and holds the lock all the time from acquire on, latency cycles
\* included.
C19_ValidHeldUntilReady ==
    [][ \A w \in Writers :
          /\ (DrivesAddress(wr[w]) /\ DrivesAddress(wr'[w])) =>
                 nxt'.AWVALID = 1 /\ nxt'.AWADDR = nxt.AWADDR
          /\ (DrivesData(wr[w]) /\ DrivesData(wr'[w])) =>
                 nxt'.WVALID = 1 /\ nxt'.WDATA = nxt.WDATA /\ nxt'.WSTRB = nxt.WSTRB
          /\ SettleMaster =>
                 /\ DrivesAddress(wr[w]) =>
                        bus'.AWVALID = 1 /\ bus'.AWADDR = wr[w].address
                 /\ DrivesData(wr[w]) =>
                        bus'.WVALID = 1 /\ bus'.WDATA = ValueOf(wr[w].address)
          /\ (wr[w].apc = "sample" /\ wr'[w].apc # "sample") =>
                 wr'[w].apc = "fin" /\ bus'.AWREADY # 0
          /\ (wr[w].dpc = "sample" /\ wr'[w].dpc # "sample") =>
                 wr'[w].dpc = "fin" /\ bus'.WREADY # 0
          /\ wr'[w].apc = "fin" => Task("addr", w) \in ready'
          /\ wr'[w].dpc = "fin" => Task("data", w) \in ready'
          /\ (wr[w].apc = "fin" /\ wr'[w].apc # "fin") =>
                 /\ wr'[w].apc = "done"
                 /\ nxt'.AWVALID = 0
                 /\ write_address_busy' = Release(write_address_busy)
          /\ (wr[w].dpc = "fin" /\ wr'[w].dpc # "fin") =>
                 /\ wr'[w].dpc = "done"
                 /\ nxt'.WVALID = 0
                 /\ write_data_busy' = Release(write_data_busy)
          /\ (InAddressPhase(wr[w]) /\ InAddressPhase(wr'[w])) =>
                 write_address_busy.locked /\ write_address_busy'.locked
          /\ (InDataPhase(wr[w]) /\ InDataPhase(wr'[w])) =>
                 write_data_busy.locked /\ write_data_busy'.locked
      ]_vars

\* a sub-task has its address settled on the bus with AWREADY low, while a
\* later write() waits for the address lock
C19_AddressStalled ==
    \E u, w \in Writers :
        /\ wr[w].apc = "sample"
        /\ bus.AWVALID = 1 /\ bus.AWADDR = wr[w].address /\ bus.AWREADY = 0
        /\ wr[u].apc = "lock"


-----------------------------------------------------------------------------
(* C20: an AXI4Slave request of size 7.                                    *)

\* the read-only window at the end of this time step sees a valid request
\* whose size has no beat width
UndefinedWrite ==
    /\ ready = {}
    /\ burst.wr.pc = "aw_ro"
    /\ bus'.AWVALID # 0
    /\ size_to_bytes_in_beat(bus'.AWSIZE) = None

UndefinedRead ==
    /\ ready = {}
    /\ burst.rdt.pc = "ar_ro"
    /\ bus'.ARVALID # 0
    /\ size_to_bytes_in_beat(bus'.ARSIZE) = None

\* the read data wires are what the peer saw settle: the slave assigned none
NoBeatDriven ==
    /\ nxt'.RVALID = bus'.RVALID
    /\ nxt'.RDATA = bus'.RDATA
    /\ nxt'.RLAST = bus'.RLAST

\* C20: a write (read) request of size 7 ends _write_data (_read_data) in the
\* window that latches it, with the memory as it was and no read beat
\* assigned; the ended coroutine is never resumed, latches nothing more and
\* changes neither the memory nor the read data wires; the other coroutine
\* still latches the next decodable request it sees and is resumed for it.
C20_UndefinedSizeEndsPath ==
    [][ /\ UndefinedWrite =>
            /\ burst'.wr.pc = "dead"
            /\ burst'.memory = burst.memory
            /\ touched' = touched
        /\ UndefinedRead =>
            /\ burst'.rdt.pc = "dead"
            /\ burst'.memory = burst.memory
            /\ NoBeatDriven
        /\ burst.wr.pc = "dead" =>
            /\ burst'.wr = burst.wr
            /\ burst'.memory = burst.memory
            /\ touched' = touched
            /\ Task("burst_wr", 0) \notin ready'
        /\ burst.rdt.pc = "dead" =>
            /\ burst'.rdt = burst.rdt
            /\ nxt'.RVALID = nxt.RVALID
            /\ nxt'.RDATA = nxt.RDATA
            /\ nxt'.RLAST = nxt.RLAST
            /\ Task("burst_rd", 0) \notin ready'
        /\ ( /\ burst.wr.pc = "dead"
             /\ ready = {}
             /\ burst.rdt.pc = "ar_ro"
             /\ bus'.ARVALID # 0
             /\ size_to_bytes_in_beat(bus'.ARSIZE) # None ) =>
            /\ burst'.rdt.pc = "r_first"
            /\ Task("burst_rd", 0) \in ready'
        /\ ( /\ burst.rdt.pc = "dead"
             /\ ready = {}
             /\ burst.wr.pc = "aw_ro"
             /\ bus'.AWVALID # 0
             /\ size_to_bytes_in_beat(bus'.AWSIZE) # None ) =>
            /\ burst'.wr.pc = "beat"
            /\ Task("burst_wr", 0) \in ready'
      ]_vars

\* _write_data has ended on a size 7, the memory is the initial image, and
\* _read_data is in the middle of a burst
C20_WriteEndedReadServing ==
    /\ burst.on
    /\ burst.wr.pc = "dead"
    /\ burst.memory = Mem0
    /\ burst.rdt.pc = "r_edge"
    /\ burst.rdt.burst_count = 1


-----------------------------------------------------------------------------
(* C21: termination of write() against the AXI4LiteSlave.                  *)

\* the call in slot w has been made and has neither returned nor raised
WriteOpen(w) == wr[w].pc \notin {"idle", "done"}

\* C21: with a running clock every write() call made to the master, alone or
\* overlapping another, returns or raises AXIProtocolError, and the slave's
\* address-phase task does not wait on the address latch forever.
C21_WritesTerminate ==
    /\ \A w \in 1..MaxLiteWrites : WriteOpen(w) ~> (wr[w].pc = "done")
    /\ (lite.wa = "wait") ~> (lite.wa # "wait")


-----------------------------------------------------------------------------
(* C22: pairing of the address phases and the data phases of write().      *)

\* write() has forked its two sub-tasks (l.140-144)
Forked(c) == c.apc # "none" /\ c.dpc # "none"

\* the place of a sub-task in the order of its channel: 0 when its phase is
\* over, 1 while it holds the lock, 1 + i when it is the i-th waiting acquirer
PhasePlace(pc, lock, w) ==
    IF pc = "done" THEN 0
    ELSE IF pc = "lock"
         THEN 1 + (CHOOSE i \in 1..Len(lock.queue) : lock.queue[i] = w)
         ELSE 1

AddressPlace(w) == PhasePlace(wr[w].apc, write_address_busy, w)
DataPlace(w) == PhasePlace(wr[w].dpc, write_data_busy, w)

\* C22: of two overlapping write() calls, the one whose address phase comes
\* first on the AW channel is never the one whose data phase comes second on
\* the W channel, whatever the two latencies of either call.
C22_AddressDataPaired ==
    \A x \in Writers, y \in Writers :
        Forked(wr[x]) /\ Forked(wr[y]) /\ AddressPlace(x) < AddressPlace(y)
          => DataPlace(x) <= DataPlace(y)

\* the data channel runs one call ahead of the address channel: a call still
\* drives its address with its data phase over, and the next call waits for
\* the address lock while it drives its data
C22_DataPhaseAhead ==
    \E x \in Writers, y \in Writers :
        /\ x # y
        /\ wr[x].apc = "sample" /\ wr[x].dpc = "done"
        /\ wr[y].apc = "lock" /\ wr[y].dpc = "sample"

====
